---- MODULE Spec2Model ----
(***************************************************************************)
(* A model of code-examples/cpp_performance_examples.cpp: the timing       *)
(* harness timeFunction, the driver main with its seven example functions, *)
(* and the loops of the timed example bodies.                              *)
(*                                                                         *)
(* Spec          the harness alone, called with any label and any work     *)
(* SpecMain      main() running the seven examples through the harness     *)
(* SpecReserve   the closures of Examples 2, 3 and 4, loop step by step    *)
(* SpecInts      the closures of Examples 1, 4 and 6, loop step by step    *)
(* SpecVariants  the closures of Examples 1, 5 and 6, loop step by step    *)
(***************************************************************************)
EXTENDS Integers, Sequences, FiniteSets

VARIABLES
    pc,        \* control position (statement about to execute)
    name,      \* timeFunction's parameter name
    func,      \* timeFunction's parameter func (the work)
    start,     \* timeFunction's local start (clock ticks, ns)
    end,       \* timeFunction's local end (clock ticks, ns)
    duration,  \* timeFunction's local duration (count of microseconds)
    now,       \* last value high_resolution_clock::now() returned
    steady,    \* high_resolution_clock::is_steady of the build
    ticks,     \* the values the clock can show during this run (ns)
    back,      \* number of times the clock has been set back so far
    out,       \* standard output: the lines written so far
    counter,   \* the counter captured by the work under test
    exc,       \* an exception left timeFunction and reached its caller
    ex,        \* main: number of the example function running (0: none)
    variant,   \* example function: number of the next timed variant
    exit,      \* the process's exit status
    arg,       \* history: the label the caller passed to the current call
    out0,      \* history: standard output when the current call began
    trace,     \* history: the events of the current call, in order
    log,       \* history: the finished calls, in order
    bpc,       \* example bodies: control position
    data,      \* the vector an example builds and its closures capture
    data0,     \* history: data as the example built it
    vec,       \* sumByValue's parameter vec (its own copy)
    i,         \* the loop variable
    sum,       \* the accumulator sum of the running loop
    size,      \* the cached size of Example 6
    count,     \* the hit counter of Example 5
    buf,       \* the string or vector a closure fills: size, capacity, ...
    orderedSet,    \* Example 5
    unorderedSet,  \* Example 5
    result     \* history: what the closures run so far have computed

hvars == <<pc, name, func, start, end, duration, now, steady, ticks, back, out, counter, exc>>
mvars == <<ex, variant, exit>>
gvars == <<arg, out0, trace, log>>
bvars == <<bpc, data, data0, vec, i, sum, size, count, buf, orderedSet, unorderedSet, result>>
vars == <<hvars, mvars, gvars, bvars>>

----------------------------------------------------------------------------
(* Bounds of the model *)

\* number of harness calls the test caller of Spec makes
MaxCalls == 2
\* largest number of counter mutations a work under test performs
MaxN == 2
\* largest number of times the clock is set back during a run
MaxSetBacks == 1

\* labels the test caller passes
Labels == {"noop", "sort"}
\* values the clock can show, in its ticks (nanoseconds), while the test
\* caller of Spec runs
TimeValues == {0, 999, 2500000}
\* values the clock can show while main runs, which reads it 32 times
MainTimeValues == {0, 2500000}

\* works the test caller passes: mutate the captured counter n times; a work
\* with throwAt = k >= 0 throws once it has made k mutations
Works ==
    UNION { { [kind |-> "counter", n |-> n, throwAt |-> k] : k \in -1..n } : n \in 0..MaxN }

NoWork == [kind |-> "none", n |-> 0, throwAt |-> -1]

----------------------------------------------------------------------------
(* Values of the example bodies *)

\* numeric_limits<int>::max() and min()
IntMax == 2147483647
IntMin == -IntMax - 1

\* a vector<int>: either its elements written out, or the vector of the
\* given size whose element i is i (what the loops of lines 53-56, 188-191
\* build), kept by its size alone
Explicit(elems) == [kind |-> "seq", size |-> Len(elems), elems |-> elems]
Iota(n) == [kind |-> "iota", size |-> n, elems |-> <<>>]
NoVec == Explicit(<<>>)

\* vec.size()
VecSize(v) == v.size
\* vec[k], k from 0
VecAt(v, k) == IF v.kind = "iota" THEN k ELSE v.elems[k + 1]

\* a string or vector being filled: size(), capacity(), the number of
\* reallocations so far, and the element appended last
NoBuf == [size |-> 0, cap |-> 0, reallocs |-> 0, last |-> <<>>]

----------------------------------------------------------------------------
(* Text written to std::cout *)

Digit == <<"0", "1", "2", "3", "4", "5", "6", "7", "8", "9">>

RECURSIVE Dec(_)
\* operator<< of a non-negative integer: its decimal digits
Dec(n) == IF n < 10 THEN Digit[n + 1] ELSE Dec(n \div 10) \o Digit[(n % 10) + 1]

\* the fractional part f/1000 (0 < f < 1000) without trailing zeros
Frac3(f) ==
    LET d1 == f \div 100
        d2 == (f \div 10) % 10
        d3 == f % 10
    IN  IF d3 # 0 THEN Digit[d1 + 1] \o Digit[d2 + 1] \o Digit[d3 + 1]
        ELSE IF d2 # 0 THEN Digit[d1 + 1] \o Digit[d2 + 1]
        ELSE Digit[d1 + 1]

\* cout << micros / 1000.0 with the stream's default format (6 significant
\* digits, no trailing zeros), for |micros| < 1000000 where it is exact
FormatMs(micros) ==
    LET a == IF micros < 0 THEN -micros ELSE micros
        ip == a \div 1000
        fr == a % 1000
    IN  (IF micros < 0 THEN "-" ELSE "")
        \o Dec(ip)
        \o (IF fr = 0 THEN "" ELSE "." \o Frac3(fr))

RECURSIVE Repeat(_, _)
\* string(n, c)
Repeat(c, n) == IF n = 0 THEN "" ELSE c \o Repeat(c, n - 1)

\* a line of output: the pieces inserted into the stream before endl, with
\* the statement that wrote it (kind, example number) as history
Line(kind, e, pieces) == [kind |-> kind, ex |-> e, text |-> pieces]

\* mutant: the label is not written
MeasurementLine_NoLabel(e, label, micros) ==
    Line("measure", e, <<": ", FormatMs(micros), " ms">>)

\* line 27: cout << name << ": " << duration.micros() / 1000.0 << " ms" << endl
MeasurementLine(e, label, micros) ==
    Line("measure", e, <<label, ": ", FormatMs(micros), " ms">>)

----------------------------------------------------------------------------
(* The clock *)

\* high_resolution_clock::now(): a steady clock never shows less than it
\* showed before; a clock that is not steady (libstdc++ makes
\* high_resolution_clock an alias of system_clock) can be set back, which
\* has happened n times so far; values are the values it can show
ClockRead(last, isSteady, values, n) ==
    { t \in values : t < last => (~isSteady /\ n < MaxSetBacks) }

\* the count of set-backs after the clock, which showed last, shows t
SetBacks(last, t, n) == IF t < last THEN n + 1 ELSE n

\* duration_cast<microseconds>(d) of d nanoseconds: truncation toward zero
DurationCast(d) == IF d >= 0 THEN d \div 1000 ELSE -((-d) \div 1000)

Event(e, v) == [ev |-> e, val |-> v]

----------------------------------------------------------------------------
(* timeFunction, lines 21-28 *)

\* the caller's call timeFunction(l, w): parameters are bound
TF_Enter(l, w) ==
    /\ name' = l
    /\ func' = w
    /\ pc' = "tf23"
    /\ arg' = l
    /\ out0' = out
    /\ trace' = <<>>
    /\ UNCHANGED <<start, end, duration, now, steady, ticks, back, out, log>>

\* line 23: auto start = high_resolution_clock::now();
TF_Start ==
    /\ pc = "tf23"
    /\ \E t \in ClockRead(now, steady, ticks, back) :
          /\ start' = t
          /\ now' = t
          /\ back' = SetBacks(now, t, back)
          /\ trace' = Append(trace, Event("start", t))
    /\ pc' = "tf24"
    /\ UNCHANGED <<name, func, end, duration, steady, ticks, out, counter, exc>>
    /\ UNCHANGED <<mvars, arg, out0, log>>
    /\ UNCHANGED bvars

\* mutant: the harness never calls the work
TF_Invoke_Skip ==
    /\ pc = "tf24"
    /\ pc' = "tf25"
    /\ trace' = Append(trace, Event("return", 0))
    /\ UNCHANGED <<name, func, start, end, duration, now, steady, ticks, back, out, counter, exc>>
    /\ UNCHANGED <<mvars, arg, out0, log>>
    /\ UNCHANGED bvars

\* line 24: func();  control enters the work
TF_Invoke ==
    /\ pc = "tf24"
    /\ pc' = "func"
    /\ trace' = Append(trace, Event("invoke", 0))
    /\ UNCHANGED <<name, func, start, end, duration, now, steady, ticks, back, out, counter, exc>>
    /\ UNCHANGED <<mvars, arg, out0, log>>
    /\ UNCHANGED bvars

\* mutant: the label is written before the end timestamp is taken
TF_End_AfterLabel ==
    /\ pc = "tf25"
    /\ out' = Append(out, Line("measure", ex, <<name, ": ">>))
    /\ \E t \in ClockRead(now, steady, ticks, back) :
          /\ end' = t
          /\ now' = t
          /\ back' = SetBacks(now, t, back)
          /\ trace' = trace \o <<Event("print", Len(out')), Event("end", t)>>
    /\ pc' = "tf26"
    /\ UNCHANGED <<name, func, start, duration, steady, ticks, counter, exc>>
    /\ UNCHANGED <<mvars, arg, out0, log>>
    /\ UNCHANGED bvars

\* line 25: auto end = high_resolution_clock::now();
TF_End ==
    /\ pc = "tf25"
    /\ \E t \in ClockRead(now, steady, ticks, back) :
          /\ end' = t
          /\ now' = t
          /\ back' = SetBacks(now, t, back)
          /\ trace' = Append(trace, Event("end", t))
    /\ pc' = "tf26"
    /\ UNCHANGED <<name, func, start, duration, steady, ticks, out, counter, exc>>
    /\ UNCHANGED <<mvars, arg, out0, log>>
    /\ UNCHANGED bvars

\* mutant: duration is kept between calls and accumulates
TF_Duration_Accumulate ==
    /\ pc = "tf26"
    /\ duration' = duration + DurationCast(end - start)
    /\ pc' = "tf27"
    /\ trace' = Append(trace, Event("duration", duration'))
    /\ UNCHANGED <<name, func, start, end, now, steady, ticks, back, out, counter, exc>>
    /\ UNCHANGED <<mvars, arg, out0, log>>
    /\ UNCHANGED bvars

\* line 26: auto duration = duration_cast<microseconds>(end - start);
TF_Duration ==
    /\ pc = "tf26"
    /\ duration' = DurationCast(end - start)
    /\ pc' = "tf27"
    /\ trace' = Append(trace, Event("duration", duration'))
    /\ UNCHANGED <<name, func, start, end, now, steady, ticks, back, out, counter, exc>>
    /\ UNCHANGED <<mvars, arg, out0, log>>
    /\ UNCHANGED bvars

\* line 27, then the return of line 28
TF_Print ==
    /\ pc = "tf27"
    /\ out' = Append(out, MeasurementLine(ex, name, duration))
    /\ pc' = "caller"
    /\ trace' = Append(trace, Event("print", Len(out')))
    /\ log' = Append(log, [name |-> arg, status |-> "returned", events |-> trace'])
    /\ UNCHANGED <<name, func, start, end, duration, now, steady, ticks, back, counter, exc>>
    /\ UNCHANGED <<mvars, arg, out0>>
    /\ UNCHANGED bvars

\* mutant: the harness catches what the work throws and goes on
TF_Unwind_Swallow ==
    /\ pc = "unwind"
    /\ pc' = "tf25"
    /\ trace' = Append(trace, Event("catch", 0))
    /\ UNCHANGED <<name, func, start, end, duration, now, steady, ticks, back, out, counter, exc>>
    /\ UNCHANGED <<mvars, arg, out0, log>>
    /\ UNCHANGED bvars

\* lines 22-28 hold no handler: an exception thrown by func() leaves
\* timeFunction, whose locals are destroyed, and reaches the caller
TF_Unwind ==
    /\ pc = "unwind"
    /\ pc' = "caller"
    /\ exc' = TRUE
    /\ trace' = Append(trace, Event("propagate", 0))
    /\ log' = Append(log, [name |-> arg, status |-> "threw", events |-> trace'])
    /\ UNCHANGED <<name, func, start, end, duration, now, steady, ticks, back, out, counter>>
    /\ UNCHANGED <<mvars, arg, out0>>
    /\ UNCHANGED bvars

----------------------------------------------------------------------------
(* The work under test: a closure that mutates a captured counter *)

Work_Mutate ==
    /\ pc = "func"
    /\ func.kind = "counter"
    /\ counter < func.n
    /\ counter # func.throwAt
    /\ counter' = counter + 1
    /\ trace' = Append(trace, Event("mutate", counter'))
    /\ UNCHANGED <<pc, name, func, start, end, duration, now, steady, ticks, back, out, exc>>
    /\ UNCHANGED <<mvars, arg, out0, log>>
    /\ UNCHANGED bvars

Work_Throw ==
    /\ pc = "func"
    /\ func.kind = "counter"
    /\ counter = func.throwAt
    /\ pc' = "unwind"
    /\ trace' = Append(trace, Event("throw", 0))
    /\ UNCHANGED <<name, func, start, end, duration, now, steady, ticks, back, out, counter, exc>>
    /\ UNCHANGED <<mvars, arg, out0, log>>
    /\ UNCHANGED bvars

Work_Return ==
    /\ pc = "func"
    /\ func.kind = "counter"
    /\ counter = func.n
    /\ counter # func.throwAt
    /\ pc' = "tf25"
    /\ trace' = Append(trace, Event("return", 0))
    /\ UNCHANGED <<name, func, start, end, duration, now, steady, ticks, back, out, counter, exc>>
    /\ UNCHANGED <<mvars, arg, out0, log>>
    /\ UNCHANGED bvars

\* a caller that passes any label and any work, with a fresh counter; it
\* has caught what the call before threw, if it threw
Caller_Call ==
    /\ pc = "caller"
    /\ Len(log) < MaxCalls
    /\ \E l \in Labels, w \in Works : TF_Enter(l, w)
    /\ counter' = 0
    /\ exc' = FALSE
    /\ UNCHANGED mvars
    /\ UNCHANGED bvars

\* the example bodies are not running
BodiesIdle ==
    /\ bpc = "none"
    /\ data = NoVec
    /\ data0 = NoVec
    /\ vec = NoVec
    /\ i = 0
    /\ sum = 0
    /\ size = 0
    /\ count = 0
    /\ buf = NoBuf
    /\ orderedSet = {}
    /\ unorderedSet = {}
    /\ result = <<>>

Init ==
    /\ BodiesIdle
    /\ pc = "caller"
    /\ name = ""
    /\ func = NoWork
    /\ start = 0
    /\ end = 0
    /\ duration = 0
    /\ now = 0
    /\ steady \in BOOLEAN
    /\ ticks = TimeValues
    /\ back = 0
    /\ out = <<>>
    /\ counter = 0
    /\ exc = FALSE
    /\ ex = 0
    /\ variant = 0
    /\ exit = "running"
    /\ arg = ""
    /\ out0 = <<>>
    /\ trace = <<>>
    /\ log = <<>>

Next ==
    \/ Caller_Call
    \/ TF_Start
    \/ TF_Invoke
    \/ Work_Mutate
    \/ Work_Throw
    \/ Work_Return
    \/ TF_Unwind
    \/ TF_End
    \/ TF_Duration
    \/ TF_Print

Spec == Init /\ [][Next]_vars

----------------------------------------------------------------------------
(* The example functions and main, lines 52-272 *)

\* a timed closure of an example function; kind "overflow" marks the two
\* closures of Example 1, whose int sum leaves the range of int
Closure(kind) == [kind |-> kind, n |-> 0, throwAt |-> -1]

testPassByReference ==
    [id |-> 1,
     header |-> "1. Pass by Value vs Reference (1M elements)",
     labels |-> <<"Pass by Value (inefficient)", "Pass by Reference (efficient)">>,
     closure |-> Closure("overflow")]

testStringConcatenation ==
    [id |-> 2,
     header |-> "2. String Concatenation (10,000 elements)",
     labels |-> <<"Using += operator (inefficient)", "Using reserve + += (efficient)">>,
     closure |-> Closure("plain")]

testVectorReserve ==
    [id |-> 3,
     header |-> "3. Vector Reserve (100,000 elements)",
     labels |-> <<"Without reserve (inefficient)", "With reserve (efficient)">>,
     closure |-> Closure("plain")]

testEmplaceBack ==
    [id |-> 4,
     header |-> "4. emplace_back vs push_back (100,000 elements)",
     labels |-> <<"Using push_back (inefficient)", "Using emplace_back (efficient)">>,
     closure |-> Closure("plain")]

testSetLookup ==
    [id |-> 5,
     header |-> "5. Set vs Unordered Set (100,000 lookups)",
     labels |-> <<"std::set lookup - O(log n)", "std::unordered_set lookup - O(1)">>,
     closure |-> Closure("plain")]

testCacheSize ==
    [id |-> 6,
     header |-> "6. Caching Vector Size (1M iterations)",
     labels |-> <<"Calling size() in loop (inefficient)", "Caching size (efficient)",
                  "Range-based for loop (most efficient)">>,
     closure |-> Closure("plain")]

testMoveSemantics ==
    [id |-> 7,
     header |-> "7. Copy vs Move Semantics",
     labels |-> <<"Copy constructor (if used)", "Move constructor (efficient)",
                  "Return value optimization">>,
     closure |-> Closure("plain")]

\* mutant: main calls testCacheSize before testSetLookup
Examples_Swapped ==
    <<testPassByReference, testStringConcatenation, testVectorReserve, testEmplaceBack,
      testCacheSize, testSetLookup, testMoveSemantics>>

\* lines 259-265: the calls of main, in order
Examples ==
    <<testPassByReference, testStringConcatenation, testVectorReserve, testEmplaceBack,
      testSetLookup, testCacheSize, testMoveSemantics>>

\* lines 255-257
Main_Title ==
    /\ pc = "main255"
    /\ out' = out \o << Line("title", 0, <<Repeat("=", 70)>>),
                        Line("title", 0, <<"C++ Performance Optimization Examples">>),
                        Line("title", 0, <<Repeat("=", 70)>>) >>
    /\ pc' = "main259"
    /\ UNCHANGED <<name, func, start, end, duration, now, steady, ticks, back, counter, exc>>
    /\ UNCHANGED <<mvars, gvars>>
    /\ UNCHANGED bvars

\* main calls its next example function, which builds its input and writes
\* its header ("\n" first, which ends an empty line) and its separator
Main_CallExample ==
    /\ pc = "main259"
    /\ ex < Len(Examples)
    /\ ex' = ex + 1
    /\ variant' = 1
    /\ out' = out \o << Line("blank", Examples[ex'].id, <<>>),
                        Line("header", Examples[ex'].id, <<Examples[ex'].header>>),
                        Line("rule", Examples[ex'].id, <<Repeat("-", 70)>>) >>
    /\ pc' = "caller"
    /\ UNCHANGED <<name, func, start, end, duration, now, steady, ticks, back, counter, exc>>
    /\ UNCHANGED <<exit, gvars>>
    /\ UNCHANGED bvars

\* the example function's next call of timeFunction
Example_Time ==
    /\ pc = "caller"
    /\ ex \in 1..Len(Examples)
    /\ variant <= Len(Examples[ex].labels)
    /\ TF_Enter(Examples[ex].labels[variant], Examples[ex].closure)
    /\ variant' = variant + 1
    /\ UNCHANGED <<counter, exc, ex, exit>>
    /\ UNCHANGED bvars

\* the example function returns to main
Example_Return ==
    /\ pc = "caller"
    /\ ex \in 1..Len(Examples)
    /\ variant > Len(Examples[ex].labels)
    /\ pc' = "main259"
    /\ UNCHANGED <<name, func, start, end, duration, now, steady, ticks, back, out, counter, exc>>
    /\ UNCHANGED <<mvars, gvars>>
    /\ UNCHANGED bvars

\* lines 267-269
Main_Closing ==
    /\ pc = "main259"
    /\ ex = Len(Examples)
    /\ out' = out \o << Line("blank", 0, <<>>),
                        Line("closing", 0, <<Repeat("=", 70)>>),
                        Line("closing", 0, <<"Benchmark Complete!">>),
                        Line("closing", 0, <<Repeat("=", 70)>>) >>
    /\ pc' = "main271"
    /\ UNCHANGED <<name, func, start, end, duration, now, steady, ticks, back, counter, exc>>
    /\ UNCHANGED <<mvars, gvars>>
    /\ UNCHANGED bvars

\* line 271: return 0;
Main_Return ==
    /\ pc = "main271"
    /\ exit' = "0"
    /\ pc' = "exited"
    /\ UNCHANGED <<name, func, start, end, duration, now, steady, ticks, back, out, counter, exc>>
    /\ UNCHANGED <<ex, variant, gvars>>
    /\ UNCHANGED bvars

\* a timed closure of an example runs to its end
Closure_Return ==
    /\ pc = "func"
    /\ func.kind \in {"plain", "overflow"}
    /\ pc' = "tf25"
    /\ trace' = Append(trace, Event("return", 0))
    /\ UNCHANGED <<name, func, start, end, duration, now, steady, ticks, back, out, counter, exc>>
    /\ UNCHANGED <<mvars, arg, out0, log>>
    /\ UNCHANGED bvars

\* lines 36-38 and 45-47: the closure's int sum overflows, which is
\* undefined; a build that traps on it (-ftrapv, -fsanitize=...-trap)
\* ends the process there, one that wraps goes on (Closure_Return)
Closure_Trap ==
    /\ pc = "func"
    /\ func.kind = "overflow"
    /\ pc' = "killed"
    /\ exit' = "signal"
    /\ trace' = Append(trace, Event("trap", 0))
    /\ UNCHANGED <<name, func, start, end, duration, now, steady, ticks, back, out, counter, exc>>
    /\ UNCHANGED <<ex, variant, arg, out0, log>>
    /\ UNCHANGED bvars

\* main starts
InitMain ==
    /\ BodiesIdle
    /\ pc = "main255"
    /\ name = ""
    /\ func = NoWork
    /\ start = 0
    /\ end = 0
    /\ duration = 0
    /\ now = 0
    /\ steady \in BOOLEAN
    /\ ticks = MainTimeValues
    /\ back = 0
    /\ out = <<>>
    /\ counter = 0
    /\ exc = FALSE
    /\ ex = 0
    /\ variant = 0
    /\ exit = "running"
    /\ arg = ""
    /\ out0 = <<>>
    /\ trace = <<>>
    /\ log = <<>>

NextMain ==
    \/ Main_Title
    \/ Main_CallExample
    \/ Example_Time
    \/ TF_Start
    \/ TF_Invoke
    \/ Closure_Return
    \/ Closure_Trap
    \/ TF_End
    \/ TF_Duration
    \/ TF_Print
    \/ Example_Return
    \/ Main_Closing
    \/ Main_Return

SpecMain == InitMain /\ [][NextMain]_vars

----------------------------------------------------------------------------
(* The timed bodies of the examples, one loop iteration per step *)

\* line 53 (and 188): the size of data
Ex1_Elements == 1000000
Ex6_Elements == 1000000
\* lines 80, 88: the numbers appended; line 87: the characters reserved
StringCount == 10000
\* mutant: one character less than the 10000 pieces need
StringReserve_Short == 48890 - 1
StringReserve == 60000
\* lines 104, 112: the elements pushed; line 111: the elements reserved
VectorCount == 100000
VectorReserve == 100000
\* lines 134, 142: the points appended; lines 133, 141: the points reserved
PointCount == 100000
PointReserve == 100000
\* line 159: the keys inserted; lines 166, 175: the lookups; lines 167, 176
SetSize == 10000
Lookups == 100000
LookupModulus == 10000

\* a + b is an int
IntFits(a, b) == IF b >= 0 THEN a <= IntMax - b ELSE a >= IntMin - b

\* a + b reduced modulo 2^32 into the range of int, for a + b outside it
IntWrap(a, b) ==
    IF b >= 0 THEN ((a - IntMax) + (b - IntMax)) - 2
    ELSE (a - IntMin) + (b - IntMin)

\* a * k is an int, for a >= 0 and k > 0
MulFits(a, k) == a <= IntMax \div k

\* a long long, kept as three digits to the base 10^9, most significant
\* first (TLC's integers are 32 bits wide)
Base == 1000000000
LLZero == <<0, 0, 0>>
\* numeric_limits<long long>::max() = 9223372036854775807
LLMax == <<9, 223372036, 854775807>>

\* the mathematical value of s + v, for a long long s >= 0 and an int v >= 0
LLAdd(s, v) ==
    LET lo == s[3] + (v % Base)
        mid == s[2] + (v \div Base) + (lo \div Base)
    IN  <<s[1] + (mid \div Base), mid % Base, lo % Base>>

LLLeq(a, b) ==
    \/ a[1] < b[1]
    \/ a[1] = b[1] /\ a[2] < b[2]
    \/ a[1] = b[1] /\ a[2] = b[2] /\ a[3] <= b[3]

\* std::to_string(n)
to_string(n) == IF n < 0 THEN "-" \o Dec(-n) ELSE Dec(n)

Max(a, b) == IF a >= b THEN a ELSE b

\* string result;  (libstdc++: 15 characters fit without an allocation)
EmptyString == [size |-> 0, cap |-> 15, reallocs |-> 0, last |-> <<>>]
\* vector<T> vec;
EmptyVector == [size |-> 0, cap |-> 0, reallocs |-> 0, last |-> <<>>]

\* string::reserve(n): a request within the capacity changes nothing; a
\* larger one allocates n, or twice the old capacity if that is more
\* (libstdc++'s _M_create)
StrReserve(b, n) == IF n > b.cap THEN [b EXCEPT !.cap = Max(n, 2 * b.cap)] ELSE b
\* vector::reserve(n): a request beyond the capacity allocates exactly n
VecReserve(b, n) == IF n > b.cap THEN [b EXCEPT !.cap = n] ELSE b

\* k more elements, the last of them elem: within the capacity nothing
\* moves, beyond it the storage is reallocated (at least doubled)
Grow(b, k, elem) ==
    IF b.size + k <= b.cap
    THEN [b EXCEPT !.size = b.size + k, !.last = elem]
    ELSE [size |-> b.size + k, cap |-> Max(b.size + k, 2 * b.cap),
          reallocs |-> b.reallocs + 1, last |-> elem]

\* result += piece
StrAppend(b, piece) == Grow(b, Len(piece), piece)
\* vec.push_back(elem), vec.emplace_back(...)
PushBack(b, elem) == Grow(b, 1, elem)

\* lines 122-125
Point(x, y, z) == [x |-> x, y |-> y, z |-> z]

\* set::insert
Insert(set, key) == set \cup {key}
\* set.find(key) != set.end()
Found(set, key) == key \in set

(* Example 1, lines 34-68 *)

\* lines 53-56: data(1000000), data[i] = i
Ex1_Setup ==
    /\ bpc = "ex1_53"
    /\ data' = Iota(Ex1_Elements)
    /\ data0' = data'
    /\ bpc' = "ex1_62"
    /\ UNCHANGED <<vec, i, sum, size, count, buf, orderedSet, unorderedSet, result>>
    /\ UNCHANGED <<hvars, mvars, gvars>>

\* mutant: the loop of sumByValue starts at the second element
SumByValue_Call_FromOne ==
    /\ bpc = "ex1_62"
    /\ vec' = data
    /\ sum' = 0
    /\ i' = 1
    /\ bpc' = "sbv_37"
    /\ UNCHANGED <<data, data0, size, count, buf, orderedSet, unorderedSet, result>>
    /\ UNCHANGED <<hvars, mvars, gvars>>

\* line 62: sumByValue(data); the parameter vec is a copy of data
SumByValue_Call ==
    /\ bpc = "ex1_62"
    /\ vec' = data
    /\ sum' = 0
    /\ i' = 0
    /\ bpc' = "sbv_37"
    /\ UNCHANGED <<data, data0, size, count, buf, orderedSet, unorderedSet, result>>
    /\ UNCHANGED <<hvars, mvars, gvars>>

\* lines 37-38: sum += val, the sum being an int
SumByValue_Add ==
    /\ bpc = "sbv_37"
    /\ i < VecSize(vec)
    /\ IntFits(sum, VecAt(vec, i))
    /\ sum' = sum + VecAt(vec, i)
    /\ i' = i + 1
    /\ UNCHANGED <<bpc, data, data0, vec, size, count, buf, orderedSet, unorderedSet, result>>
    /\ UNCHANGED <<hvars, mvars, gvars>>

\* lines 37-38: sum + val is not an int, which is undefined: this build wraps
SumByValue_Wrap ==
    /\ bpc = "sbv_37"
    /\ i < VecSize(vec)
    /\ ~IntFits(sum, VecAt(vec, i))
    /\ sum' = IntWrap(sum, VecAt(vec, i))
    /\ i' = i + 1
    /\ UNCHANGED <<bpc, data, data0, vec, size, count, buf, orderedSet, unorderedSet, result>>
    /\ UNCHANGED <<hvars, mvars, gvars>>

\* lines 37-38: sum + val is not an int, which is undefined: this build traps
SumByValue_Trap ==
    /\ bpc = "sbv_37"
    /\ i < VecSize(vec)
    /\ ~IntFits(sum, VecAt(vec, i))
    /\ bpc' = "killed"
    /\ UNCHANGED <<data, data0, vec, i, sum, size, count, buf, orderedSet, unorderedSet, result>>
    /\ UNCHANGED <<hvars, mvars, gvars>>

\* line 40: return sum; the copy is destroyed
SumByValue_Return ==
    /\ bpc = "sbv_37"
    /\ i = VecSize(vec)
    /\ result' = Append(result, sum)
    /\ vec' = NoVec
    /\ bpc' = "ex1_66"
    /\ UNCHANGED <<data, data0, i, sum, size, count, buf, orderedSet, unorderedSet>>
    /\ UNCHANGED <<hvars, mvars, gvars>>

\* line 66: sumByReference(data); the parameter vec refers to data
SumByReference_Call ==
    /\ bpc = "ex1_66"
    /\ sum' = 0
    /\ i' = 0
    /\ bpc' = "sbr_46"
    /\ UNCHANGED <<data, data0, vec, size, count, buf, orderedSet, unorderedSet, result>>
    /\ UNCHANGED <<hvars, mvars, gvars>>

\* lines 46-47: sum += val, the sum being an int
SumByReference_Add ==
    /\ bpc = "sbr_46"
    /\ i < VecSize(data)
    /\ IntFits(sum, VecAt(data, i))
    /\ sum' = sum + VecAt(data, i)
    /\ i' = i + 1
    /\ UNCHANGED <<bpc, data, data0, vec, size, count, buf, orderedSet, unorderedSet, result>>
    /\ UNCHANGED <<hvars, mvars, gvars>>

\* lines 46-47: sum + val is not an int, which is undefined: this build wraps
SumByReference_Wrap ==
    /\ bpc = "sbr_46"
    /\ i < VecSize(data)
    /\ ~IntFits(sum, VecAt(data, i))
    /\ sum' = IntWrap(sum, VecAt(data, i))
    /\ i' = i + 1
    /\ UNCHANGED <<bpc, data, data0, vec, size, count, buf, orderedSet, unorderedSet, result>>
    /\ UNCHANGED <<hvars, mvars, gvars>>

\* lines 46-47: sum + val is not an int, which is undefined: this build traps
SumByReference_Trap ==
    /\ bpc = "sbr_46"
    /\ i < VecSize(data)
    /\ ~IntFits(sum, VecAt(data, i))
    /\ bpc' = "killed"
    /\ UNCHANGED <<data, data0, vec, i, sum, size, count, buf, orderedSet, unorderedSet, result>>
    /\ UNCHANGED <<hvars, mvars, gvars>>

\* line 49: return sum;
SumByReference_Return ==
    /\ bpc = "sbr_46"
    /\ i = VecSize(data)
    /\ result' = Append(result, sum)
    /\ bpc' = "ex1_done"
    /\ UNCHANGED <<data, data0, vec, i, sum, size, count, buf, orderedSet, unorderedSet>>
    /\ UNCHANGED <<hvars, mvars, gvars>>

(* Example 2, lines 78-91 *)

\* line 79: string result;
Ex2_Plain_Begin ==
    /\ bpc = "ex2_79"
    /\ buf' = EmptyString
    /\ i' = 0
    /\ bpc' = "ex2_80"
    /\ UNCHANGED <<data, data0, vec, sum, size, count, orderedSet, unorderedSet, result>>
    /\ UNCHANGED <<hvars, mvars, gvars>>

\* lines 80-82: result += to_string(i) + ","
Ex2_Plain_Append ==
    /\ bpc = "ex2_80"
    /\ i < StringCount
    /\ buf' = StrAppend(buf, to_string(i) \o ",")
    /\ i' = i + 1
    /\ UNCHANGED <<bpc, data, data0, vec, sum, size, count, orderedSet, unorderedSet, result>>
    /\ UNCHANGED <<hvars, mvars, gvars>>

\* line 83: the closure ends, result is destroyed
Ex2_Plain_End ==
    /\ bpc = "ex2_80"
    /\ i = StringCount
    /\ buf' = NoBuf
    /\ bpc' = "ex2_86"
    /\ UNCHANGED <<data, data0, vec, i, sum, size, count, orderedSet, unorderedSet, result>>
    /\ UNCHANGED <<hvars, mvars, gvars>>

\* lines 86-87: string result; result.reserve(60000);
Ex2_Reserve_Begin ==
    /\ bpc = "ex2_86"
    /\ buf' = StrReserve(EmptyString, StringReserve)
    /\ i' = 0
    /\ bpc' = "ex2_88"
    /\ UNCHANGED <<data, data0, vec, sum, size, count, orderedSet, unorderedSet, result>>
    /\ UNCHANGED <<hvars, mvars, gvars>>

\* lines 88-90: result += to_string(i) + ","
Ex2_Reserve_Append ==
    /\ bpc = "ex2_88"
    /\ i < StringCount
    /\ buf' = StrAppend(buf, to_string(i) \o ",")
    /\ i' = i + 1
    /\ UNCHANGED <<bpc, data, data0, vec, sum, size, count, orderedSet, unorderedSet, result>>
    /\ UNCHANGED <<hvars, mvars, gvars>>

\* line 91: the closure ends, result is destroyed
Ex2_Reserve_End ==
    /\ bpc = "ex2_88"
    /\ i = StringCount
    /\ buf' = NoBuf
    /\ bpc' = "ex2_done"
    /\ UNCHANGED <<data, data0, vec, i, sum, size, count, orderedSet, unorderedSet, result>>
    /\ UNCHANGED <<hvars, mvars, gvars>>

(* Example 3, lines 102-115 *)

\* line 103: vector<int> vec;
Ex3_Plain_Begin ==
    /\ bpc = "ex3_103"
    /\ buf' = EmptyVector
    /\ i' = 0
    /\ bpc' = "ex3_104"
    /\ UNCHANGED <<data, data0, vec, sum, size, count, orderedSet, unorderedSet, result>>
    /\ UNCHANGED <<hvars, mvars, gvars>>

\* lines 104-106: vec.push_back(i)
Ex3_Plain_Append ==
    /\ bpc = "ex3_104"
    /\ i < VectorCount
    /\ buf' = PushBack(buf, i)
    /\ i' = i + 1
    /\ UNCHANGED <<bpc, data, data0, vec, sum, size, count, orderedSet, unorderedSet, result>>
    /\ UNCHANGED <<hvars, mvars, gvars>>

\* line 107: the closure ends, vec is destroyed
Ex3_Plain_End ==
    /\ bpc = "ex3_104"
    /\ i = VectorCount
    /\ buf' = NoBuf
    /\ bpc' = "ex3_110"
    /\ UNCHANGED <<data, data0, vec, i, sum, size, count, orderedSet, unorderedSet, result>>
    /\ UNCHANGED <<hvars, mvars, gvars>>

\* lines 110-111: vector<int> vec; vec.reserve(100000);
Ex3_Reserve_Begin ==
    /\ bpc = "ex3_110"
    /\ buf' = VecReserve(EmptyVector, VectorReserve)
    /\ i' = 0
    /\ bpc' = "ex3_112"
    /\ UNCHANGED <<data, data0, vec, sum, size, count, orderedSet, unorderedSet, result>>
    /\ UNCHANGED <<hvars, mvars, gvars>>

\* lines 112-114: vec.push_back(i)
Ex3_Reserve_Append ==
    /\ bpc = "ex3_112"
    /\ i < VectorCount
    /\ buf' = PushBack(buf, i)
    /\ i' = i + 1
    /\ UNCHANGED <<bpc, data, data0, vec, sum, size, count, orderedSet, unorderedSet, result>>
    /\ UNCHANGED <<hvars, mvars, gvars>>

\* line 115: the closure ends, vec is destroyed
Ex3_Reserve_End ==
    /\ bpc = "ex3_112"
    /\ i = VectorCount
    /\ buf' = NoBuf
    /\ bpc' = "ex3_done"
    /\ UNCHANGED <<data, data0, vec, i, sum, size, count, orderedSet, unorderedSet, result>>
    /\ UNCHANGED <<hvars, mvars, gvars>>

(* Example 4, lines 131-145 *)

\* lines 132-133: vector<Point> points; points.reserve(100000);
Ex4_Push_Begin ==
    /\ bpc = "ex4_132"
    /\ buf' = VecReserve(EmptyVector, PointReserve)
    /\ i' = 0
    /\ bpc' = "ex4_134"
    /\ UNCHANGED <<data, data0, vec, sum, size, count, orderedSet, unorderedSet, result>>
    /\ UNCHANGED <<hvars, mvars, gvars>>

\* lines 134-136: points.push_back(Point(i, i*2, i*3))
Ex4_Push_Append ==
    /\ bpc = "ex4_134"
    /\ i < PointCount
    /\ buf' = PushBack(buf, Point(i, i * 2, i * 3))
    /\ i' = i + 1
    /\ UNCHANGED <<bpc, data, data0, vec, sum, size, count, orderedSet, unorderedSet, result>>
    /\ UNCHANGED <<hvars, mvars, gvars>>

\* line 137: the closure ends, points is destroyed
Ex4_Push_End ==
    /\ bpc = "ex4_134"
    /\ i = PointCount
    /\ buf' = NoBuf
    /\ bpc' = "ex4_140"
    /\ UNCHANGED <<data, data0, vec, i, sum, size, count, orderedSet, unorderedSet, result>>
    /\ UNCHANGED <<hvars, mvars, gvars>>

\* lines 140-141: vector<Point> points; points.reserve(100000);
Ex4_Emplace_Begin ==
    /\ bpc = "ex4_140"
    /\ buf' = VecReserve(EmptyVector, PointReserve)
    /\ i' = 0
    /\ bpc' = "ex4_142"
    /\ UNCHANGED <<data, data0, vec, sum, size, count, orderedSet, unorderedSet, result>>
    /\ UNCHANGED <<hvars, mvars, gvars>>

\* lines 142-144: points.emplace_back(i, i*2, i*3)
Ex4_Emplace_Append ==
    /\ bpc = "ex4_142"
    /\ i < PointCount
    /\ buf' = PushBack(buf, Point(i, i * 2, i * 3))
    /\ i' = i + 1
    /\ UNCHANGED <<bpc, data, data0, vec, sum, size, count, orderedSet, unorderedSet, result>>
    /\ UNCHANGED <<hvars, mvars, gvars>>

\* line 145: the closure ends, points is destroyed
Ex4_Emplace_End ==
    /\ bpc = "ex4_142"
    /\ i = PointCount
    /\ buf' = NoBuf
    /\ bpc' = "ex4_done"
    /\ UNCHANGED <<data, data0, vec, i, sum, size, count, orderedSet, unorderedSet, result>>
    /\ UNCHANGED <<hvars, mvars, gvars>>

(* Example 5, lines 156-180 *)

\* lines 159-162: both sets take the key i
Ex5_Insert ==
    /\ bpc = "ex5_159"
    /\ i < SetSize
    /\ orderedSet' = Insert(orderedSet, i)
    /\ unorderedSet' = Insert(unorderedSet, i)
    /\ i' = i + 1
    /\ UNCHANGED <<bpc, data, data0, vec, sum, size, count, buf, result>>
    /\ UNCHANGED <<hvars, mvars, gvars>>

\* line 159: the loop ends
Ex5_Filled ==
    /\ bpc = "ex5_159"
    /\ i = SetSize
    /\ bpc' = "ex5_165"
    /\ UNCHANGED <<data, data0, vec, i, sum, size, count, buf, orderedSet, unorderedSet, result>>
    /\ UNCHANGED <<hvars, mvars, gvars>>

\* lines 165-170: int count = 0; int i = 0
Ex5_Ordered_Begin ==
    /\ bpc = "ex5_165"
    /\ count' = 0
    /\ i' = 0
    /\ bpc' = "ex5_166"
    /\ UNCHANGED <<data, data0, vec, sum, size, buf, orderedSet, unorderedSet, result>>
    /\ UNCHANGED <<hvars, mvars, gvars>>

\* lines 165-170: if (orderedSet.find(i % 10000) != orderedSet.end()) count++
Ex5_Ordered_Find ==
    /\ bpc = "ex5_166"
    /\ i < Lookups
    /\ count' = IF Found(orderedSet, i % LookupModulus) THEN count + 1 ELSE count
    /\ i' = i + 1
    /\ UNCHANGED <<bpc, data, data0, vec, sum, size, buf, orderedSet, unorderedSet, result>>
    /\ UNCHANGED <<hvars, mvars, gvars>>

\* lines 165-170: the closure ends
Ex5_Ordered_End ==
    /\ bpc = "ex5_166"
    /\ i = Lookups
    /\ result' = Append(result, count)
    /\ bpc' = "ex5_174"
    /\ UNCHANGED <<data, data0, vec, i, sum, size, count, buf, orderedSet, unorderedSet>>
    /\ UNCHANGED <<hvars, mvars, gvars>>

\* lines 174-179: int count = 0; int i = 0
Ex5_Unordered_Begin ==
    /\ bpc = "ex5_174"
    /\ count' = 0
    /\ i' = 0
    /\ bpc' = "ex5_175"
    /\ UNCHANGED <<data, data0, vec, sum, size, buf, orderedSet, unorderedSet, result>>
    /\ UNCHANGED <<hvars, mvars, gvars>>

\* lines 174-179: if (unorderedSet.find(i % 10000) != unorderedSet.end()) count++
Ex5_Unordered_Find ==
    /\ bpc = "ex5_175"
    /\ i < Lookups
    /\ count' = IF Found(unorderedSet, i % LookupModulus) THEN count + 1 ELSE count
    /\ i' = i + 1
    /\ UNCHANGED <<bpc, data, data0, vec, sum, size, buf, orderedSet, unorderedSet, result>>
    /\ UNCHANGED <<hvars, mvars, gvars>>

\* lines 174-179: the closure ends
Ex5_Unordered_End ==
    /\ bpc = "ex5_175"
    /\ i = Lookups
    /\ result' = Append(result, count)
    /\ bpc' = "ex5_done"
    /\ UNCHANGED <<data, data0, vec, i, sum, size, count, buf, orderedSet, unorderedSet>>
    /\ UNCHANGED <<hvars, mvars, gvars>>

(* Example 6, lines 188-216 *)

\* lines 188-191: data(1000000), data[i] = i
Ex6_Setup ==
    /\ bpc = "ex6_188"
    /\ data' = Iota(Ex6_Elements)
    /\ data0' = data'
    /\ bpc' = "ex6_197"
    /\ UNCHANGED <<vec, i, sum, size, count, buf, orderedSet, unorderedSet, result>>
    /\ UNCHANGED <<hvars, mvars, gvars>>

\* lines 197-198: long long sum = 0; size_t i = 0
Ex6_Size_Begin ==
    /\ bpc = "ex6_197"
    /\ sum' = LLZero
    /\ i' = 0
    /\ bpc' = "ex6_198"
    /\ UNCHANGED <<data, data0, vec, size, count, buf, orderedSet, unorderedSet, result>>
    /\ UNCHANGED <<hvars, mvars, gvars>>

\* lines 198-199: i < data.size(); sum += data[i]
Ex6_Size_Step ==
    /\ bpc = "ex6_198"
    /\ i < VecSize(data)
    /\ sum' = LLAdd(sum, VecAt(data, i))
    /\ i' = i + 1
    /\ UNCHANGED <<bpc, data, data0, vec, size, count, buf, orderedSet, unorderedSet, result>>
    /\ UNCHANGED <<hvars, mvars, gvars>>

\* line 198: i = data.size(), the closure ends
Ex6_Size_End ==
    /\ bpc = "ex6_198"
    /\ i = VecSize(data)
    /\ result' = Append(result, sum)
    /\ bpc' = "ex6_204"
    /\ UNCHANGED <<data, data0, vec, i, sum, size, count, buf, orderedSet, unorderedSet>>
    /\ UNCHANGED <<hvars, mvars, gvars>>

\* lines 204-206: long long sum = 0; const size_t size = data.size(); size_t i = 0
Ex6_Cached_Begin ==
    /\ bpc = "ex6_204"
    /\ sum' = LLZero
    /\ size' = VecSize(data)
    /\ i' = 0
    /\ bpc' = "ex6_206"
    /\ UNCHANGED <<data, data0, vec, count, buf, orderedSet, unorderedSet, result>>
    /\ UNCHANGED <<hvars, mvars, gvars>>

\* lines 206-207: i < size; sum += data[i]
Ex6_Cached_Step ==
    /\ bpc = "ex6_206"
    /\ i < size
    /\ sum' = LLAdd(sum, VecAt(data, i))
    /\ i' = i + 1
    /\ UNCHANGED <<bpc, data, data0, vec, size, count, buf, orderedSet, unorderedSet, result>>
    /\ UNCHANGED <<hvars, mvars, gvars>>

\* line 206: i = size, the closure ends
Ex6_Cached_End ==
    /\ bpc = "ex6_206"
    /\ i = size
    /\ result' = Append(result, sum)
    /\ bpc' = "ex6_212"
    /\ UNCHANGED <<data, data0, vec, i, sum, size, count, buf, orderedSet, unorderedSet>>
    /\ UNCHANGED <<hvars, mvars, gvars>>

\* lines 212-213: long long sum = 0; the range-based for starts at data.begin()
Ex6_Range_Begin ==
    /\ bpc = "ex6_212"
    /\ sum' = LLZero
    /\ i' = 0
    /\ bpc' = "ex6_213"
    /\ UNCHANGED <<data, data0, vec, size, count, buf, orderedSet, unorderedSet, result>>
    /\ UNCHANGED <<hvars, mvars, gvars>>

\* lines 213-214: the iterator is not data.end(); sum += val
Ex6_Range_Step ==
    /\ bpc = "ex6_213"
    /\ i < VecSize(data)
    /\ sum' = LLAdd(sum, VecAt(data, i))
    /\ i' = i + 1
    /\ UNCHANGED <<bpc, data, data0, vec, size, count, buf, orderedSet, unorderedSet, result>>
    /\ UNCHANGED <<hvars, mvars, gvars>>

\* line 213: the iterator is data.end(), the closure ends
Ex6_Range_End ==
    /\ bpc = "ex6_213"
    /\ i = VecSize(data)
    /\ result' = Append(result, sum)
    /\ bpc' = "ex6_done"
    /\ UNCHANGED <<data, data0, vec, i, sum, size, count, buf, orderedSet, unorderedSet>>
    /\ UNCHANGED <<hvars, mvars, gvars>>

(* Specifications of the bodies *)

\* the harness and main are not running
HarnessIdle ==
    /\ pc = "none"
    /\ name = ""
    /\ func = NoWork
    /\ start = 0
    /\ end = 0
    /\ duration = 0
    /\ now = 0
    /\ steady = FALSE
    /\ ticks = {0}
    /\ back = 0
    /\ out = <<>>
    /\ counter = 0
    /\ exc = FALSE
    /\ ex = 0
    /\ variant = 0
    /\ exit = "running"
    /\ arg = ""
    /\ out0 = <<>>
    /\ trace = <<>>
    /\ log = <<>>

\* an example function is entered (bpc = at) with nothing built yet
BodyAt(at) ==
    /\ bpc = at
    /\ data = NoVec
    /\ data0 = NoVec
    /\ vec = NoVec
    /\ i = 0
    /\ sum = 0
    /\ size = 0
    /\ count = 0
    /\ buf = NoBuf
    /\ orderedSet = {}
    /\ unorderedSet = {}
    /\ result = <<>>

NextEx1 ==
    \/ SumByValue_Call
    \/ SumByValue_Add
    \/ SumByValue_Wrap
    \/ SumByValue_Trap
    \/ SumByValue_Return
    \/ SumByReference_Call
    \/ SumByReference_Add
    \/ SumByReference_Wrap
    \/ SumByReference_Trap
    \/ SumByReference_Return

NextEx2 ==
    \/ Ex2_Plain_Begin
    \/ Ex2_Plain_Append
    \/ Ex2_Plain_End
    \/ Ex2_Reserve_Begin
    \/ Ex2_Reserve_Append
    \/ Ex2_Reserve_End

NextEx3 ==
    \/ Ex3_Plain_Begin
    \/ Ex3_Plain_Append
    \/ Ex3_Plain_End
    \/ Ex3_Reserve_Begin
    \/ Ex3_Reserve_Append
    \/ Ex3_Reserve_End

NextEx4 ==
    \/ Ex4_Push_Begin
    \/ Ex4_Push_Append
    \/ Ex4_Push_End
    \/ Ex4_Emplace_Begin
    \/ Ex4_Emplace_Append
    \/ Ex4_Emplace_End

NextEx5 ==
    \/ Ex5_Insert
    \/ Ex5_Filled
    \/ Ex5_Ordered_Begin
    \/ Ex5_Ordered_Find
    \/ Ex5_Ordered_End
    \/ Ex5_Unordered_Begin
    \/ Ex5_Unordered_Find
    \/ Ex5_Unordered_End

NextEx6 ==
    \/ Ex6_Setup
    \/ Ex6_Size_Begin
    \/ Ex6_Size_Step
    \/ Ex6_Size_End
    \/ Ex6_Cached_Begin
    \/ Ex6_Cached_Step
    \/ Ex6_Cached_End
    \/ Ex6_Range_Begin
    \/ Ex6_Range_Step
    \/ Ex6_Range_End

\* the bodies that fill a string or a vector: Examples 2, 3 and 4
InitReserve == HarnessIdle /\ (BodyAt("ex2_79") \/ BodyAt("ex3_103") \/ BodyAt("ex4_132"))
NextReserve == NextEx2 \/ NextEx3 \/ NextEx4
SpecReserve == InitReserve /\ [][NextReserve]_vars

\* the bodies with integer arithmetic: Examples 1, 4 and 6 as main runs them
InitInts == HarnessIdle /\ (BodyAt("ex1_53") \/ BodyAt("ex4_132") \/ BodyAt("ex6_188"))
NextInts == Ex1_Setup \/ NextEx1 \/ NextEx4 \/ NextEx6
SpecInts == InitInts /\ [][NextInts]_vars

\* the longest input vector and the elements of the input vectors that
\* sumByValue and sumByReference are given in SpecVariants
MaxLen == 3
InputValues == {1, 7, IntMax, IntMin}
RECURSIVE SeqsUpTo(_)
SeqsUpTo(n) ==
    IF n = 0 THEN { <<>> }
    ELSE LET shorter == SeqsUpTo(n - 1)
         IN  shorter \cup { Append(s, v) : s \in shorter, v \in InputValues }
InputVectors == { Explicit(s) : s \in SeqsUpTo(MaxLen) }

\* the closures of Example 1 with any captured vector
InitSums ==
    /\ bpc = "ex1_62"
    /\ data \in InputVectors
    /\ data0 = data
    /\ vec = NoVec
    /\ i = 0
    /\ sum = 0
    /\ size = 0
    /\ count = 0
    /\ buf = NoBuf
    /\ orderedSet = {}
    /\ unorderedSet = {}
    /\ result = <<>>

\* the bodies whose variants are compared: Example 1 on any vector and
\* on the vector main gives it, Examples 5 and 6 as main runs them
InitVariants ==
    HarnessIdle
    /\ (InitSums \/ BodyAt("ex1_53") \/ BodyAt("ex5_159") \/ BodyAt("ex6_188"))
NextVariants == Ex1_Setup \/ NextEx1 \/ NextEx5 \/ NextEx6
SpecVariants == InitVariants /\ [][NextVariants]_vars

----------------------------------------------------------------------------
(* Properties of the harness, checked under Spec *)

EvNames(events) == [k \in 1..Len(events) |-> events[k].ev]

NotMutate(e) == e # "mutate"

IsPrefix(s, t) == Len(s) <= Len(t) /\ s = SubSeq(t, 1, Len(s))

Count(events, e) == Cardinality({ k \in 1..Len(events) : events[k].ev = e })

\* the value of the first event called e
ValueOf(events, e) ==
    events[CHOOSE k \in 1..Len(events) : events[k].ev = e /\ \A j \in 1..(k - 1) : events[j].ev # e].val

\* the last call has returned normally to its caller
Returned == pc = "caller" /\ Len(log) > 0 /\ log[Len(log)].status = "returned"

\* the last call has ended by an exception
Threw == pc = "caller" /\ Len(log) > 0 /\ log[Len(log)].status = "threw"

\* C1: once the work of a call has returned (the harness is past line 24, or
\* back in its caller after a normal return), the work has been invoked
\* exactly once and has run to completion: a work that mutates the counter
\* n times has mutated it exactly n times.
C1_WorkRunsExactlyOnce ==
    (pc \in {"tf25", "tf26", "tf27"} \/ Returned) =>
        /\ counter = func.n
        /\ Count(trace, "invoke") = 1
        /\ Count(trace, "return") = 1
        /\ Count(trace, "mutate") = func.n

C1_Witness == Returned /\ func.n = 2 /\ counter = 2 /\ Len(log) = 2

\* C2: when the work throws, the exception leaves the harness and reaches
\* the caller, and the call writes nothing: standard output is what it was
\* before the call and no line was printed for it.
C2_ThrowPropagates ==
    Count(trace, "throw") > 0 =>
        /\ pc \in {"unwind", "caller"}
        /\ out = out0
        /\ Count(trace, "print") = 0
        /\ (pc = "caller" => exc /\ Threw)

C2_Witness == Threw /\ exc /\ counter = 1 /\ Len(out0) = 1 /\ out = out0

\* C3: the elapsed duration the harness reports is never negative.
C3_ElapsedNonNegative ==
    \A k \in 1..Len(log) :
        log[k].status = "returned" => ValueOf(log[k].events, "duration") >= 0

\* C4: a call whose work completes normally appends exactly one line to
\* standard output, of the form  L: <elapsed> ms  with the caller's label L
\* verbatim, and writes nothing else: nothing before line 27, and after the
\* return the output is the output before the call plus that line.
C4_OneLinePerCall ==
    /\ (pc \in {"tf23", "tf24", "func", "unwind", "tf25", "tf26", "tf27"} => out = out0)
    /\ (Returned =>
          /\ Len(out) = Len(out0) + 1
          /\ SubSeq(out, 1, Len(out0)) = out0
          /\ out[Len(out)].text = <<arg, ": ", FormatMs(duration), " ms">>)

C4_Witness == Returned /\ Len(out0) = 1 /\ Len(out) = 2 /\ arg = "sort" /\ duration = 2499

\* the line a finished call must have written, from its own label and its
\* own two clock readings
OwnLine(call) ==
    MeasurementLine(0, call.name,
        DurationCast(ValueOf(call.events, "end") - ValueOf(call.events, "start")))

IsReturned(call) == call.status = "returned"

\* C5: the measurement lines on standard output are one per normally
\* completed call, in call order, and the line of a call is determined by
\* that call's label and that call's two timestamps alone.
C5_LinesInCallOrder ==
    LET done == SelectSeq(log, IsReturned)
    IN  out = [k \in 1..Len(done) |-> OwnLine(done[k])]

C5_Witness ==
    /\ Len(log) = 2
    /\ IsReturned(log[1]) /\ IsReturned(log[2])
    /\ log[1].name = "sort" /\ log[2].name = "noop"
    /\ ValueOf(log[1].events, "start") # ValueOf(log[2].events, "start")
    /\ Len(out) = 2

\* C6: the events of a call occur in the order start timestamp, work, end
\* timestamp, elapsed, output; between the two timestamps only the work
\* runs, and the output is written only after the end timestamp.
C6_EventOrder ==
    LET names == EvNames(trace)
        steps == SelectSeq(names, NotMutate)
        first == CHOOSE k \in 1..(Len(names) + 1) :
                    (k = Len(names) + 1 \/ names[k] = "mutate")
                    /\ \A j \in 1..(k - 1) : names[j] # "mutate"
    IN  /\ \/ IsPrefix(steps, <<"start", "invoke", "return", "end", "duration", "print">>)
           \/ IsPrefix(steps, <<"start", "invoke", "throw", "propagate">>)
        /\ Count(trace, "mutate") > 0 =>
              /\ SubSeq(names, 1, first - 1) = <<"start", "invoke">>
              /\ \A k \in first..(first + Count(trace, "mutate") - 1) : names[k] = "mutate"
        /\ out # out0 => Count(trace, "end") = 1 /\ Count(trace, "duration") = 1

C6_Witness ==
    /\ Returned
    /\ Len(log) = 2
    /\ log[1].status = "threw"
    /\ EvNames(trace) =
          <<"start", "invoke", "mutate", "mutate", "return", "end", "duration", "print">>

----------------------------------------------------------------------------
(* Properties of main, checked under SpecMain *)

Tag(line) == <<line.kind, line.ex>>

Tags(lines) == [k \in 1..Len(lines) |-> Tag(lines[k])]

RECURSIVE Copies(_, _)
Copies(x, n) == IF n = 0 THEN <<>> ELSE <<x>> \o Copies(x, n - 1)

\* what one example writes: an empty line, its numbered header, its
\* separator, then one measurement line per timed variant
ExampleTags(e, variants) ==
    << <<"blank", e>>, <<"header", e>>, <<"rule", e>> >> \o Copies(<<"measure", e>>, variants)

\* the output of a whole run: the title banner, examples 1 to 7 with
\* 2, 2, 2, 2, 2, 3 and 3 timed variants, the closing banner
ExpectedTags ==
    Copies(<<"title", 0>>, 3)
    \o ExampleTags(1, 2) \o ExampleTags(2, 2) \o ExampleTags(3, 2) \o ExampleTags(4, 2)
    \o ExampleTags(5, 2) \o ExampleTags(6, 3) \o ExampleTags(7, 3)
    \o << <<"blank", 0>> >> \o Copies(<<"closing", 0>>, 3)

IsMeasure(line) == line.kind = "measure"

\* C7: the lines of standard output are at every moment the beginning of:
\* title banner, then for each example 1..7 in order its header (after an
\* empty line), its separator and its measurement lines, then the closing
\* banner; a run in which no work fails writes all of it, with the 16
\* measurement lines carrying the labels of the 16 calls in call order, the
\* closing banner last, and ends with exit status 0.
C7_OutputInSourceOrder ==
    /\ IsPrefix(Tags(out), ExpectedTags)
    /\ (exit = "0") = (pc = "exited")
    /\ pc = "exited" =>
          /\ Tags(out) = ExpectedTags
          /\ Len(log) = 16
          /\ \A k \in 1..16 : IsReturned(log[k])
          /\ LET lines == SelectSeq(out, IsMeasure)
             IN  /\ Len(lines) = 16
                 /\ \A k \in 1..16 : lines[k].text[1] = log[k].name
          /\ \A e \in 1..7 : \E k \in 1..Len(out) :
                out[k].kind = "header" /\ out[k].ex = e /\ out[k].text = <<Examples[e].header>>

C7_Witness ==
    /\ pc = "exited"
    /\ exit = "0"
    /\ Len(out) = 44
    /\ out[Len(out) - 1].text = <<"Benchmark Complete!">>
    /\ out[40].text[1] = "Return value optimization"
    /\ back = 1
    /\ out[7].text = <<"Pass by Value (inefficient)", ": ", "-2.5", " ms">>

----------------------------------------------------------------------------
(* Properties of the example bodies *)

\* C8: in each variant that reserves first (the string of Example 2 with
\* reserve(60000), the vector of Example 3 and the two vectors of Example 4
\* with reserve(100000)), at every step of the loop the size is within the
\* capacity reserved and no append has reallocated.
C8_NoReallocation ==
    /\ bpc = "ex2_88" =>
          buf.size <= 60000 /\ buf.size <= buf.cap /\ buf.reallocs = 0
    /\ bpc \in {"ex3_112", "ex4_134", "ex4_142"} =>
          buf.size <= 100000 /\ buf.size <= buf.cap /\ buf.reallocs = 0 /\ buf.size = i

C8_Witness ==
    /\ bpc = "ex2_88"
    /\ i = 10000
    /\ buf.last = "9999,"
    /\ buf.size = 48890
    /\ buf.cap = 60000

\* the int sums of sumByValue and sumByReference
Ex1SumsInRange ==
    /\ (bpc = "sbv_37" /\ i < VecSize(vec)) => IntFits(sum, VecAt(vec, i))
    /\ (bpc = "sbr_46" /\ i < VecSize(data)) => IntFits(sum, VecAt(data, i))

\* i*2 and i*3 of Example 4 and the long long sums of Example 6
OtherIntegersInRange ==
    /\ (bpc \in {"ex4_134", "ex4_142"} /\ i < PointCount) =>
          MulFits(i, 2) /\ MulFits(i, 3)
    /\ (bpc \in {"ex6_198", "ex6_206", "ex6_213"} /\ i < VecSize(data)) =>
          LLLeq(LLAdd(sum, VecAt(data, i)), LLMax)

\* C9: at every loop step the value the next integer expression computes is
\* within the range of its type: sum + val in sumByValue and sumByReference
\* (int), i*2 and i*3 in Example 4 (int), sum + data[i] in Example 6 (long
\* long).
C9_IntegersInRange == Ex1SumsInRange /\ OtherIntegersInRange

\* C10: the variants of one example compute the same result from the same,
\* unmodified input: sumByValue and sumByReference return the same value
\* and leave the caller's vector as it was; the three loops of Example 6
\* produce the same sum; in Example 5 every lookup hits in both sets, both
\* counts are 100000 and the sets stay 0..9999.
C10_VariantsAgree ==
    /\ bpc \in {"sbv_37", "ex1_66", "sbr_46", "ex1_done"} => data = data0
    /\ bpc = "ex1_done" => Len(result) = 2 /\ result[1] = result[2]
    /\ bpc \in {"ex5_166", "ex5_175"} => count = i
    /\ bpc \in {"ex5_165", "ex5_174", "ex5_done"} =>
          orderedSet = 0..9999 /\ unorderedSet = 0..9999
    /\ bpc = "ex5_done" => result = <<100000, 100000>>
    /\ bpc \in {"ex6_197", "ex6_198", "ex6_204", "ex6_206", "ex6_212", "ex6_213", "ex6_done"} =>
          data = data0
    /\ bpc = "ex6_done" =>
          Len(result) = 3 /\ result[1] = result[2] /\ result[2] = result[3]

C10_Witness ==
    /\ bpc = "ex1_done"
    /\ data = Explicit(<<7, 1, 7>>)
    /\ data0 = data
    /\ result = <<15, 15>>

====
